---- MODULE Spec2Model ----
(***************************************************************************)
(* Model of pytorch_toolbelt.utils.bboxes_utils.match_bboxes: the matching *)
(* of predicted and ground-truth bounding boxes by optimal assignment on   *)
(* IoU, and the per-class TP/FP/FN counts and confusion matrix it returns. *)
(*                                                                         *)
(* Arrays are 1-based sequences here (0-based in the source); class labels *)
(* keep the source's 0-based values.  An IoU is the exact fraction         *)
(* <<intersection, union>>; a threshold is a fraction <<num, den>>.  The   *)
(* boxes and thresholds of the model are small integers and dyadic         *)
(* fractions, for which the float32 quotient of the source orders against  *)
(* the threshold exactly as the fraction does.                             *)
(***************************************************************************)
EXTENDS Integers, Sequences, FiniteSets, TLC

VARIABLES args, frame

vars == <<args, frame>>

(* ------------------------------ bounds --------------------------------- *)

MaxPred == 2
MaxTrue == 2

(* ------------------------------ inputs --------------------------------- *)

\* Optional[int]: None is the empty tuple, a value v is <<v>>.
None == << >>

\* [x1, y1, x2, y2] boxes.  A predicted box against a ground-truth box has
\* IoU 4/6, 2/8, 1 (the same box) or 0; the two ground-truth boxes are disjoint.
PredBoxes == { <<0, 0, 3, 2>>, <<0, 0, 2, 2>> }

TrueBoxes == { <<0, 0, 2, 2>>, <<2, 0, 4, 2>> }

Scores == {1, 2}

NumClassesChoices == {1, 2}

\* iou_threshold as <<num, den>>: 0.5 (the default) and 1.0.
Thresholds == { <<1, 2>>, <<1, 1>> }

Labels(num_classes) == 0 .. (num_classes - 1)

Indices(n) == 1 .. n

Min(a, b) == IF a <= b THEN a ELSE b

Max(a, b) == IF a >= b THEN a ELSE b

\* Calls with n predictions, m ground truths and min_size=None: any boxes,
\* labels in [0, num_classes), any scores.
ConsistentCalls(n, m, nc) ==
    [ pred_boxes    : [Indices(n) -> PredBoxes],
      pred_labels   : [Indices(n) -> Labels(nc)],
      pred_scores   : [Indices(n) -> Scores],
      true_boxes    : [Indices(m) -> TrueBoxes],
      true_labels   : [Indices(m) -> Labels(nc)],
      num_classes   : {nc},
      iou_threshold : Thresholds,
      min_size      : {None} ]

\* Calls with arrays of consistent lengths and min_size given (0 or 10): any
\* scores; the call raises before it reads a box or a label, so these
\* repeat one value.
MinSizeCalls(n, m, nc) ==
    [ pred_boxes    : {[i \in Indices(n) |-> <<0, 0, 3, 2>>]},
      pred_labels   : {[i \in Indices(n) |-> 0]},
      pred_scores   : [Indices(n) -> Scores],
      true_boxes    : {[i \in Indices(m) |-> <<0, 0, 2, 2>>]},
      true_labels   : {[i \in Indices(m) |-> 0]},
      num_classes   : {nc},
      iou_threshold : Thresholds,
      min_size      : { <<0>>, <<10>> } ]

\* Calls with arrays of the given, inconsistent lengths, min_size given or
\* not; the call raises before it reads any content, so each array repeats
\* one value.
InconsistentCalls(lpb, lpl, lps, ltb, ltl, nc) ==
    [ pred_boxes    : {[i \in Indices(lpb) |-> <<0, 0, 3, 2>>]},
      pred_labels   : {[i \in Indices(lpl) |-> 0]},
      pred_scores   : {[i \in Indices(lps) |-> 1]},
      true_boxes    : {[i \in Indices(ltb) |-> <<0, 0, 2, 2>>]},
      true_labels   : {[i \in Indices(ltl) |-> 0]},
      num_classes   : {nc},
      iou_threshold : { <<1, 2>> },
      min_size      : { None, <<0>> } ]

(* --------------------------- pure helpers ------------------------------ *)

\* ZeroVector one entry too long (sized like a side of the confusion matrix).
ZeroVectorWithNone(num_classes) == [c \in 0 .. num_classes |-> 0]

\* np.zeros(num_classes, dtype=int)
ZeroVector(num_classes) == [c \in Labels(num_classes) |-> 0]

\* np.zeros((num_classes + 1, num_classes + 1), dtype=int), indexed [gt][pred]
ZeroMatrix(num_classes) == [t \in 0 .. num_classes |-> [p \in 0 .. num_classes |-> 0]]

\* torchvision.ops.box_iou for one pair, as <<intersection, union>>
Area(b) == (b[3] - b[1]) * (b[4] - b[2])

Intersection(a, b) ==
    Max(Min(a[3], b[3]) - Max(a[1], b[1]), 0) * Max(Min(a[4], b[4]) - Max(a[2], b[2]), 0)

IoU(a, b) == << Intersection(a, b), Area(a) + Area(b) - Intersection(a, b) >>

\* iou_matrix[ri, ci]
IouMatrix(pred_boxes, true_boxes) ==
    [ri \in DOMAIN pred_boxes |-> [ci \in DOMAIN true_boxes |-> IoU(pred_boxes[ri], true_boxes[ci])]]

\* AboveThreshold with the comparison turned round (iou < iou_threshold).
AboveThresholdInverted(iou, thr) == iou[1] * thr[2] < thr[1] * iou[2]

\* AboveThreshold accepting a pair at the threshold (iou >= iou_threshold).
AboveOrAtThreshold(iou, thr) == iou[1] * thr[2] >= thr[1] * iou[2]

\* iou > iou_threshold on fractions with positive denominators
AboveThreshold(iou, thr) == iou[1] * thr[2] > thr[1] * iou[2]

Inc(v, c) == [v EXCEPT ![c] = @ + 1]

IncCell(m, t, p) == [m EXCEPT ![t][p] = @ + 1]

\* for true_class in true_labels: false_negatives[true_class] += 1   (and the
\* same loop shape for false_positives over pred_labels)
RECURSIVE IncAll(_, _)
IncAll(v, labels) ==
    IF labels = << >> THEN v ELSE IncAll(Inc(v, Head(labels)), Tail(labels))

\* IncNoneColumn writing the none_class row instead of the none_class column.
RECURSIVE IncNoneColumnAsRow(_, _, _)
IncNoneColumnAsRow(m, labels, none_class) ==
    IF labels = << >> THEN m
    ELSE IncNoneColumnAsRow(IncCell(m, none_class, Head(labels)), Tail(labels), none_class)

\* for true_class in ...: confusion_matrix[true_class, none_class] += 1
RECURSIVE IncNoneColumn(_, _, _)
IncNoneColumn(m, labels, none_class) ==
    IF labels = << >> THEN m
    ELSE IncNoneColumn(IncCell(m, Head(labels), none_class), Tail(labels), none_class)

\* IncNoneRow writing the none_class column instead of the none_class row.
RECURSIVE IncNoneRowAsColumn(_, _, _)
IncNoneRowAsColumn(m, labels, none_class) ==
    IF labels = << >> THEN m
    ELSE IncNoneRowAsColumn(IncCell(m, Head(labels), none_class), Tail(labels), none_class)

\* IncNoneRow indexing the column with none_class too:
\* confusion_matrix[none_class, none_class] += 1 for every label.
RECURSIVE IncNoneRowAtNone(_, _, _)
IncNoneRowAtNone(m, labels, none_class) ==
    IF labels = << >> THEN m
    ELSE IncNoneRowAtNone(IncCell(m, none_class, none_class), Tail(labels), none_class)

\* for pred_class in ...: confusion_matrix[none_class, pred_class] += 1
RECURSIVE IncNoneRow(_, _, _)
IncNoneRow(m, labels, none_class) ==
    IF labels = << >> THEN m
    ELSE IncNoneRow(IncCell(m, none_class, Head(labels)), Tail(labels), none_class)

\* labels[mask] for a boolean mask
RECURSIVE Masked(_, _)
Masked(labels, mask) ==
    IF labels = << >> THEN << >>
    ELSE (IF Head(mask) THEN << Head(labels) >> ELSE << >>)
         \o Masked(Tail(labels), Tail(mask))

\* np.argsort(pred_scores): an index order that sorts the scores ascending.
\* The default kind is not stable, so equal scores come in any order.
ArgSort(scores) ==
    { o \in [DOMAIN scores -> DOMAIN scores] :
        /\ \A i, j \in DOMAIN scores : i # j => o[i] # o[j]
        /\ \A i, j \in DOMAIN scores : i < j => scores[o[i]] <= scores[o[j]] }

\* a[order]
Take(a, order) == [i \in DOMAIN order |-> a[order[i]]]

(* ----------------------- linear_sum_assignment ------------------------- *)

FracAdd(a, b) == << a[1] * b[2] + b[1] * a[2], a[2] * b[2] >>

FracGeq(a, b) == a[1] * b[2] >= b[1] * a[2]

\* iou_matrix[row_ind, col_ind].sum()
RECURSIVE TotalIoU(_, _, _, _)
TotalIoU(iou_matrix, row_ind, col_ind, k) ==
    IF k = 0 THEN << 0, 1 >>
    ELSE FracAdd(TotalIoU(iou_matrix, row_ind, col_ind, k - 1),
                 iou_matrix[row_ind[k]][col_ind[k]])

\* Ascending index sequences of length k over 1 .. n.
AscendingSeqs(k, n) ==
    { r \in [1 .. k -> 1 .. n] : \A i, j \in 1 .. k : i < j => r[i] < r[j] }

\* Index sequences of length k over 1 .. m without repetition.
DistinctSeqs(k, m) ==
    { q \in [1 .. k -> 1 .. m] : \A i, j \in 1 .. k : i # j => q[i] # q[j] }

\* The one-to-one pairings of min(n, m) pairs, as <<row_ind, col_ind>> with
\* row_ind ascending (the form scipy returns).
PairingsOfShape(n, m) ==
    { << r, q >> : r \in AscendingSeqs(Min(n, m), n), q \in DistinctSeqs(Min(n, m), m) }

\* <<n, m, pairing>> for every shape of iou_matrix the bounds admit.
PairingTable ==
    UNION { { << s[1], s[2], p >> : p \in PairingsOfShape(s[1], s[2]) }
            : s \in (1 .. MaxPred) \X (1 .. MaxTrue) }

Pairings(n, m) == { t[3] : t \in { x \in PairingTable : x[1] = n /\ x[2] = m } }

\* The pairings of p that no pairing of p beats in total IoU.
Maximal(iou_matrix, p, k) ==
    LET totals == { << a, TotalIoU(iou_matrix, a[1], a[2], k) >> : a \in p }
    IN  { t[1] : t \in { x \in totals : \A y \in totals : FracGeq(x[2], y[2]) } }

\* The columns of greatest IoU in row ri.
BestColumns(iou_matrix, ri, m) ==
    { ci \in 1 .. m : \A cj \in 1 .. m : FracGeq(iou_matrix[ri][ci], iou_matrix[ri][cj]) }

\* LinearSumAssignment replaced by a per-prediction argmax: every prediction
\* takes a ground truth of greatest IoU, taken or not.
GreedyAssignment(iou_matrix, n, m) ==
    { << [i \in 1 .. n |-> i], q >> :
        q \in { q \in [1 .. n -> 1 .. m] :
                  \A i \in 1 .. n : q[i] \in BestColumns(iou_matrix, i, m) } }

\* LinearSumAssignment without maximize=True: a pairing of minimal total IoU.
LinearSumAssignmentMinimizing(iou_matrix, n, m) ==
    LET totals == { << a, TotalIoU(iou_matrix, a[1], a[2], Min(n, m)) >> : a \in Pairings(n, m) }
    IN  { t[1] : t \in { x \in totals : \A y \in totals : FracGeq(y[2], x[2]) } }

\* linear_sum_assignment(iou_matrix, maximize=True): a pairing of maximal
\* total IoU; which one among several of equal total is the solver's choice.
LinearSumAssignment(iou_matrix, n, m) ==
    Maximal(iou_matrix, Pairings(n, m), Min(n, m))

(* ------------------------------ state ---------------------------------- *)

\* The ids of the calls in progress.
CallIds == {1}

\* The frame of a call on entry: the local names pred_boxes and pred_labels
\* are bound to the caller's arrays, nothing else is assigned yet.
EntryFrame(a) ==
    [ pc               |-> "check_pred",
      pred_boxes       |-> a.pred_boxes,
      pred_labels      |-> a.pred_labels,
      order            |-> << >>,
      true_positives   |-> << >>,
      false_positives  |-> << >>,
      false_negatives  |-> << >>,
      confusion_matrix |-> << >>,
      iou_matrix       |-> << >>,
      row_ind          |-> << >>,
      col_ind          |-> << >>,
      remainig_preds   |-> << >>,
      remainig_trues   |-> << >>,
      raised           |-> "",
      result           |-> << >> ]

\* A call in progress with arguments a, about to run its first statement.
Enter(a) ==
    /\ args = [c \in CallIds |-> a]
    /\ frame = [c \in CallIds |-> EntryFrame(a)]

Init ==
    \E nc \in NumClassesChoices :
        \/ \E n \in 0 .. MaxPred, m \in 0 .. MaxTrue :
             \E a \in ConsistentCalls(n, m, nc) \cup MinSizeCalls(n, m, nc) : Enter(a)
        \/ \E lpb, lpl, lps \in 0 .. MaxPred, ltb, ltl \in 0 .. MaxTrue :
             /\ ~(lpl = lpb /\ lpl = lps /\ ltb = ltl)
             /\ \E a \in InconsistentCalls(lpb, lpl, lps, ltb, ltl, nc) : Enter(a)

Raise(c, exc) ==
    /\ frame' = [frame EXCEPT ![c].pc = "raised", ![c].raised = exc]
    /\ UNCHANGED args

Goto(c, label) ==
    /\ frame' = [frame EXCEPT ![c].pc = label]
    /\ UNCHANGED args

BBoxesMatchResult(f) ==
    [ true_positives   |-> f.true_positives,
      false_positives  |-> f.false_positives,
      false_negatives  |-> f.false_negatives,
      confusion_matrix |-> f.confusion_matrix ]

(* ------------------------------ actions -------------------------------- *)

\* CheckPredLengths with the min_size check of lines 82-83 placed before it.
CheckPredLengthsAfterMinSize(c) ==
    /\ frame[c].pc = "check_pred"
    /\ IF args[c].min_size # None
       THEN Raise(c, "NotImplementedError")
       ELSE IF Len(args[c].pred_labels) # Len(args[c].pred_boxes)
               \/ Len(args[c].pred_labels) # Len(args[c].pred_scores)
       THEN Raise(c, "ValueError: predicted")
       ELSE Goto(c, "check_true")

\* if len(pred_labels) != len(pred_boxes) or len(pred_labels) != len(pred_scores): raise ValueError
CheckPredLengths(c) ==
    /\ frame[c].pc = "check_pred"
    /\ IF Len(args[c].pred_labels) # Len(args[c].pred_boxes)
          \/ Len(args[c].pred_labels) # Len(args[c].pred_scores)
       THEN Raise(c, "ValueError: predicted")
       ELSE Goto(c, "check_true")

\* CheckTrueLengths without the check.
CheckTrueLengthsSkipped(c) ==
    /\ frame[c].pc = "check_true"
    /\ Goto(c, "reorder")

\* if len(true_boxes) != len(true_labels): raise ValueError
CheckTrueLengths(c) ==
    /\ frame[c].pc = "check_true"
    /\ IF Len(args[c].true_boxes) # Len(args[c].true_labels)
       THEN Raise(c, "ValueError: ground-truth")
       ELSE Goto(c, "reorder")

\* Reorder reordering the labels only: pred_boxes keeps the caller's order.
ReorderLabelsOnly(c) ==
    /\ frame[c].pc = "reorder"
    /\ \E order \in ArgSort(args[c].pred_scores) :
         frame' = [frame EXCEPT
            ![c].pc               = "check_min_size",
            ![c].order            = order,
            ![c].pred_labels      = Take(frame[c].pred_labels, order),
            ![c].true_positives   = ZeroVector(args[c].num_classes),
            ![c].false_positives  = ZeroVector(args[c].num_classes),
            ![c].false_negatives  = ZeroVector(args[c].num_classes),
            ![c].confusion_matrix = ZeroMatrix(args[c].num_classes)]
    /\ UNCHANGED args

\* Reorder reordering the boxes only: pred_labels keeps the caller's order.
ReorderBoxesOnly(c) ==
    /\ frame[c].pc = "reorder"
    /\ \E order \in ArgSort(args[c].pred_scores) :
         frame' = [frame EXCEPT
            ![c].pc               = "check_min_size",
            ![c].order            = order,
            ![c].pred_boxes       = Take(frame[c].pred_boxes, order),
            ![c].true_positives   = ZeroVector(args[c].num_classes),
            ![c].false_positives  = ZeroVector(args[c].num_classes),
            ![c].false_negatives  = ZeroVector(args[c].num_classes),
            ![c].confusion_matrix = ZeroMatrix(args[c].num_classes)]
    /\ UNCHANGED args

\* Reorder sorting the caller's arrays in place (pred_boxes[:] = pred_boxes[order]).
ReorderInPlace(c) ==
    /\ frame[c].pc = "reorder"
    /\ \E order \in ArgSort(args[c].pred_scores) :
         /\ frame' = [frame EXCEPT
               ![c].pc               = "check_min_size",
               ![c].order            = order,
               ![c].pred_boxes       = Take(frame[c].pred_boxes, order),
               ![c].pred_labels      = Take(frame[c].pred_labels, order),
               ![c].true_positives   = ZeroVector(args[c].num_classes),
               ![c].false_positives  = ZeroVector(args[c].num_classes),
               ![c].false_negatives  = ZeroVector(args[c].num_classes),
               ![c].confusion_matrix = ZeroMatrix(args[c].num_classes)]
         /\ args' = [args EXCEPT
               ![c].pred_boxes  = Take(frame[c].pred_boxes, order),
               ![c].pred_labels = Take(frame[c].pred_labels, order)]

\* Reorder with the counters and the confusion matrix kept in module-level
\* arrays: a call that reaches lines 74-79 while another call's arrays exist
\* goes on from their contents.
ReorderSharedCounters(c) ==
    /\ frame[c].pc = "reorder"
    /\ \E order \in ArgSort(args[c].pred_scores) :
         LET others == { d \in DOMAIN frame : d # c /\ frame[d].confusion_matrix # << >> }
             shared == IF others = {} THEN
                           [ true_positives   |-> ZeroVector(args[c].num_classes),
                             false_positives  |-> ZeroVector(args[c].num_classes),
                             false_negatives  |-> ZeroVector(args[c].num_classes),
                             confusion_matrix |-> ZeroMatrix(args[c].num_classes) ]
                       ELSE BBoxesMatchResult(frame[CHOOSE d \in others : TRUE])
         IN  frame' = [frame EXCEPT
                ![c].pc               = "check_min_size",
                ![c].order            = order,
                ![c].pred_boxes       = Take(frame[c].pred_boxes, order),
                ![c].pred_labels      = Take(frame[c].pred_labels, order),
                ![c].true_positives   = shared.true_positives,
                ![c].false_positives  = shared.false_positives,
                ![c].false_negatives  = shared.false_negatives,
                ![c].confusion_matrix = shared.confusion_matrix]
    /\ UNCHANGED args

\* order = np.argsort(pred_scores); the local pred_boxes and pred_labels are
\* rebound to reordered copies; the counters and the confusion matrix are
\* allocated as zeros.
Reorder(c) ==
    /\ frame[c].pc = "reorder"
    /\ \E order \in ArgSort(args[c].pred_scores) :
         frame' = [frame EXCEPT
            ![c].pc               = "check_min_size",
            ![c].order            = order,
            ![c].pred_boxes       = Take(frame[c].pred_boxes, order),
            ![c].pred_labels      = Take(frame[c].pred_labels, order),
            ![c].true_positives   = ZeroVector(args[c].num_classes),
            ![c].false_positives  = ZeroVector(args[c].num_classes),
            ![c].false_negatives  = ZeroVector(args[c].num_classes),
            ![c].confusion_matrix = ZeroMatrix(args[c].num_classes)]
    /\ UNCHANGED args

\* CheckMinSize testing the truth value of min_size (if min_size: ...), which
\* lets min_size=0 through.
CheckMinSizeTruthy(c) ==
    /\ frame[c].pc = "check_min_size"
    /\ IF args[c].min_size # None /\ args[c].min_size # << 0 >>
       THEN Raise(c, "NotImplementedError")
       ELSE Goto(c, "dispatch")

\* if min_size is not None: raise NotImplementedError
CheckMinSize(c) ==
    /\ frame[c].pc = "check_min_size"
    /\ IF args[c].min_size # None
       THEN Raise(c, "NotImplementedError")
       ELSE Goto(c, "dispatch")

\* if num_pred_objects == 0 and num_true_objects == 0: return the zero result
ReturnBothEmpty(c) ==
    /\ frame[c].pc = "dispatch"
    /\ Len(frame[c].pred_boxes) = 0
    /\ Len(args[c].true_boxes) = 0
    /\ frame' = [frame EXCEPT ![c].pc = "returned",
                              ![c].result = BBoxesMatchResult(frame[c])]
    /\ UNCHANGED args

\* elif num_pred_objects == 0: every ground truth is a false negative
ReturnNoPredictions(c) ==
    /\ frame[c].pc = "dispatch"
    /\ Len(frame[c].pred_boxes) = 0
    /\ Len(args[c].true_boxes) # 0
    /\ LET none_class == args[c].num_classes
           f == [frame[c] EXCEPT
                   !.false_negatives  = IncAll(@, args[c].true_labels),
                   !.confusion_matrix = IncNoneColumn(@, args[c].true_labels, none_class)]
       IN  frame' = [frame EXCEPT ![c] = [f EXCEPT !.pc = "returned",
                                                   !.result = BBoxesMatchResult(f)]]
    /\ UNCHANGED args

\* ReturnNoGroundTruth counting into false_negatives, as the branch above it does.
ReturnNoGroundTruthAsNegatives(c) ==
    /\ frame[c].pc = "dispatch"
    /\ Len(frame[c].pred_boxes) # 0
    /\ Len(args[c].true_boxes) = 0
    /\ LET none_class == args[c].num_classes
           f == [frame[c] EXCEPT
                   !.false_negatives  = IncAll(@, frame[c].pred_labels),
                   !.confusion_matrix = IncNoneRow(@, frame[c].pred_labels, none_class)]
       IN  frame' = [frame EXCEPT ![c] = [f EXCEPT !.pc = "returned",
                                                   !.result = BBoxesMatchResult(f)]]
    /\ UNCHANGED args

\* elif num_true_objects == 0: every prediction is a false positive
ReturnNoGroundTruth(c) ==
    /\ frame[c].pc = "dispatch"
    /\ Len(frame[c].pred_boxes) # 0
    /\ Len(args[c].true_boxes) = 0
    /\ LET none_class == args[c].num_classes
           f == [frame[c] EXCEPT
                   !.false_positives  = IncAll(@, frame[c].pred_labels),
                   !.confusion_matrix = IncNoneRow(@, frame[c].pred_labels, none_class)]
       IN  frame' = [frame EXCEPT ![c] = [f EXCEPT !.pc = "returned",
                                                   !.result = BBoxesMatchResult(f)]]
    /\ UNCHANGED args

\* Assigned pairing the boxes by position (the k-th prediction with the k-th
\* ground truth) instead of asking the solver.
AssignedByPosition(f, iou_matrix, n, m) ==
    { [f EXCEPT
          !.pc             = "loop",
          !.iou_matrix     = iou_matrix,
          !.row_ind        = [k \in 1 .. Min(n, m) |-> k],
          !.col_ind        = [k \in 1 .. Min(n, m) |-> k],
          !.remainig_preds = [i \in 1 .. n |-> TRUE],
          !.remainig_trues = [j \in 1 .. m |-> TRUE]] }

\* row_ind, col_ind = linear_sum_assignment(iou_matrix, maximize=True)
\* remainig_preds = np.ones(num_pred_objects, dtype=np.bool)
\* remainig_trues = np.ones(num_true_objects, dtype=np.bool)
\* on the frame f, for each outcome of the solver.
Assigned(f, iou_matrix, n, m) ==
    { [f EXCEPT
          !.pc             = "loop",
          !.iou_matrix     = iou_matrix,
          !.row_ind        = a[1],
          !.col_ind        = a[2],
          !.remainig_preds = [i \in 1 .. n |-> TRUE],
          !.remainig_trues = [j \in 1 .. m |-> TRUE]]
      : a \in LinearSumAssignment(iou_matrix, n, m) }

\* Reached when neither set is empty:
\* iou_matrix = to_numpy(box_iou(pred_boxes, true_boxes)), then the assignment.
ComputeAssignment(c) ==
    /\ frame[c].pc = "dispatch"
    /\ Len(frame[c].pred_boxes) # 0
    /\ Len(args[c].true_boxes) # 0
    /\ \E f \in Assigned(frame[c], IouMatrix(frame[c].pred_boxes, args[c].true_boxes),
                         Len(frame[c].pred_boxes), Len(args[c].true_boxes)) :
          frame' = [frame EXCEPT ![c] = f]
    /\ UNCHANGED args

\* MatchPair with a class mismatch counted as a false negative only.
MatchPairNoFalsePositive(f, a, k) ==
    LET ri == f.row_ind[k]
        ci == f.col_ind[k]
        pred_class == f.pred_labels[ri]
        true_class == a.true_labels[ci]
    IN  IF AboveThreshold(f.iou_matrix[ri][ci], a.iou_threshold)
        THEN [f EXCEPT
                !.remainig_preds = [@ EXCEPT ![ri] = FALSE],
                !.remainig_trues = [@ EXCEPT ![ci] = FALSE],
                !.true_positives =
                    IF pred_class = true_class THEN Inc(@, true_class) ELSE @,
                !.false_negatives =
                    IF pred_class = true_class THEN @ ELSE Inc(@, true_class),
                !.confusion_matrix = IncCell(@, true_class, pred_class)]
        ELSE f

\* MatchPair with a class mismatch counted as a false positive only.
MatchPairNoFalseNegative(f, a, k) ==
    LET ri == f.row_ind[k]
        ci == f.col_ind[k]
        pred_class == f.pred_labels[ri]
        true_class == a.true_labels[ci]
    IN  IF AboveThreshold(f.iou_matrix[ri][ci], a.iou_threshold)
        THEN [f EXCEPT
                !.remainig_preds = [@ EXCEPT ![ri] = FALSE],
                !.remainig_trues = [@ EXCEPT ![ci] = FALSE],
                !.true_positives =
                    IF pred_class = true_class THEN Inc(@, true_class) ELSE @,
                !.false_positives =
                    IF pred_class = true_class THEN @ ELSE Inc(@, pred_class),
                !.confusion_matrix = IncCell(@, true_class, pred_class)]
        ELSE f

\* MatchPair with the confusion matrix indexed [pred, gt].
MatchPairTransposed(f, a, k) ==
    LET ri == f.row_ind[k]
        ci == f.col_ind[k]
        pred_class == f.pred_labels[ri]
        true_class == a.true_labels[ci]
    IN  IF AboveThreshold(f.iou_matrix[ri][ci], a.iou_threshold)
        THEN [f EXCEPT
                !.remainig_preds = [@ EXCEPT ![ri] = FALSE],
                !.remainig_trues = [@ EXCEPT ![ci] = FALSE],
                !.true_positives =
                    IF pred_class = true_class THEN Inc(@, true_class) ELSE @,
                !.false_positives =
                    IF pred_class = true_class THEN @ ELSE Inc(@, pred_class),
                !.false_negatives =
                    IF pred_class = true_class THEN @ ELSE Inc(@, true_class),
                !.confusion_matrix = IncCell(@, pred_class, true_class)]
        ELSE f

\* MatchPair leaving the boxes of a pair of different classes flagged as
\* remaining, so that the loops over what remains count them again.
MatchPairMismatchRemaining(f, a, k) ==
    LET ri == f.row_ind[k]
        ci == f.col_ind[k]
        pred_class == f.pred_labels[ri]
        true_class == a.true_labels[ci]
    IN  IF AboveThreshold(f.iou_matrix[ri][ci], a.iou_threshold)
        THEN [f EXCEPT
                !.remainig_preds = IF pred_class = true_class THEN [@ EXCEPT ![ri] = FALSE] ELSE @,
                !.remainig_trues = IF pred_class = true_class THEN [@ EXCEPT ![ci] = FALSE] ELSE @,
                !.true_positives =
                    IF pred_class = true_class THEN Inc(@, true_class) ELSE @,
                !.false_positives =
                    IF pred_class = true_class THEN @ ELSE Inc(@, pred_class),
                !.false_negatives =
                    IF pred_class = true_class THEN @ ELSE Inc(@, true_class),
                !.confusion_matrix = IncCell(@, true_class, pred_class)]
        ELSE f

\* MatchPair with the confusion-matrix update inside the equal-classes branch.
MatchPairMatrixOnMatch(f, a, k) ==
    LET ri == f.row_ind[k]
        ci == f.col_ind[k]
        pred_class == f.pred_labels[ri]
        true_class == a.true_labels[ci]
    IN  IF AboveThreshold(f.iou_matrix[ri][ci], a.iou_threshold)
        THEN [f EXCEPT
                !.remainig_preds = [@ EXCEPT ![ri] = FALSE],
                !.remainig_trues = [@ EXCEPT ![ci] = FALSE],
                !.true_positives =
                    IF pred_class = true_class THEN Inc(@, true_class) ELSE @,
                !.false_positives =
                    IF pred_class = true_class THEN @ ELSE Inc(@, pred_class),
                !.false_negatives =
                    IF pred_class = true_class THEN @ ELSE Inc(@, true_class),
                !.confusion_matrix =
                    IF pred_class = true_class THEN IncCell(@, true_class, pred_class) ELSE @]
        ELSE f

\* MatchPair reading the predicted class from the caller's pred_labels, which
\* are not in the order of the rows of iou_matrix.
MatchPairCallerLabels(f, a, k) ==
    LET ri == f.row_ind[k]
        ci == f.col_ind[k]
        pred_class == a.pred_labels[ri]
        true_class == a.true_labels[ci]
    IN  IF AboveThreshold(f.iou_matrix[ri][ci], a.iou_threshold)
        THEN [f EXCEPT
                !.remainig_preds = [@ EXCEPT ![ri] = FALSE],
                !.remainig_trues = [@ EXCEPT ![ci] = FALSE],
                !.true_positives =
                    IF pred_class = true_class THEN Inc(@, true_class) ELSE @,
                !.false_positives =
                    IF pred_class = true_class THEN @ ELSE Inc(@, pred_class),
                !.false_negatives =
                    IF pred_class = true_class THEN @ ELSE Inc(@, true_class),
                !.confusion_matrix = IncCell(@, true_class, pred_class)]
        ELSE f

\* MatchPair with the confusion-matrix update at the level of the loop body:
\* every assigned pair is entered, above the threshold or not.
MatchPairMatrixAlways(f, a, k) ==
    LET ri == f.row_ind[k]
        ci == f.col_ind[k]
        pred_class == f.pred_labels[ri]
        true_class == a.true_labels[ci]
    IN  IF AboveThreshold(f.iou_matrix[ri][ci], a.iou_threshold)
        THEN [f EXCEPT
                !.remainig_preds = [@ EXCEPT ![ri] = FALSE],
                !.remainig_trues = [@ EXCEPT ![ci] = FALSE],
                !.true_positives =
                    IF pred_class = true_class THEN Inc(@, true_class) ELSE @,
                !.false_positives =
                    IF pred_class = true_class THEN @ ELSE Inc(@, pred_class),
                !.false_negatives =
                    IF pred_class = true_class THEN @ ELSE Inc(@, true_class),
                !.confusion_matrix = IncCell(@, true_class, pred_class)]
        ELSE [f EXCEPT !.confusion_matrix = IncCell(@, true_class, pred_class)]

\* The body of the loop for the k-th pair ri, ci of zip(row_ind, col_ind), on
\* the frame f of a call with arguments a.
MatchPair(f, a, k) ==
    LET ri == f.row_ind[k]
        ci == f.col_ind[k]
        pred_class == f.pred_labels[ri]
        true_class == a.true_labels[ci]
    IN  IF AboveThreshold(f.iou_matrix[ri][ci], a.iou_threshold)
        THEN [f EXCEPT
                !.remainig_preds = [@ EXCEPT ![ri] = FALSE],
                !.remainig_trues = [@ EXCEPT ![ci] = FALSE],
                !.true_positives =
                    IF pred_class = true_class THEN Inc(@, true_class) ELSE @,
                !.false_positives =
                    IF pred_class = true_class THEN @ ELSE Inc(@, pred_class),
                !.false_negatives =
                    IF pred_class = true_class THEN @ ELSE Inc(@, true_class),
                !.confusion_matrix = IncCell(@, true_class, pred_class)]
        ELSE f

\* for ri, ci in zip(row_ind, col_ind): ... from the k-th pair on
RECURSIVE MatchPairsFrom(_, _, _)
MatchPairsFrom(f, a, k) ==
    IF k > Len(f.row_ind) THEN f ELSE MatchPairsFrom(MatchPair(f, a, k), a, k + 1)

\* CountRemaining without the loop over the remaining ground truths.
CountRemainingPredictions(f, a) ==
    [f EXCEPT
        !.false_positives  = IncAll(@, Masked(f.pred_labels, f.remainig_preds)),
        !.confusion_matrix =
            IncNoneRow(@, Masked(f.pred_labels, f.remainig_preds), a.num_classes)]

\* if remainig_preds.any(): every prediction still flagged is a false positive
\* if remainig_trues.any(): every ground truth still flagged is a false negative
CountRemaining(f, a) ==
    [f EXCEPT
        !.false_positives  = IncAll(@, Masked(f.pred_labels, f.remainig_preds)),
        !.false_negatives  = IncAll(@, Masked(a.true_labels, f.remainig_trues)),
        !.confusion_matrix =
            IncNoneColumn(IncNoneRow(@, Masked(f.pred_labels, f.remainig_preds), a.num_classes),
                          Masked(a.true_labels, f.remainig_trues), a.num_classes)]

\* return BBoxesMatchResult(...) from the frame f
Return(f) == [f EXCEPT !.pc = "returned", !.result = BBoxesMatchResult(f)]

\* The loop over the assigned pairs, the two loops over what remains, and
\* the return.
ReturnMatched(c) ==
    /\ frame[c].pc = "loop"
    /\ frame' = [frame EXCEPT
          ![c] = Return(CountRemaining(MatchPairsFrom(frame[c], args[c], 1), args[c]))]
    /\ UNCHANGED args

Next ==
    \E c \in CallIds :
        \/ CheckPredLengths(c)
        \/ CheckTrueLengths(c)
        \/ Reorder(c)
        \/ CheckMinSize(c)
        \/ ReturnBothEmpty(c)
        \/ ReturnNoPredictions(c)
        \/ ReturnNoGroundTruth(c)
        \/ ComputeAssignment(c)
        \/ ReturnMatched(c)

Spec == Init /\ [][Next]_vars

(* ------------------ two calls, their steps interleaved ----------------- *)

\* The ids of two calls in progress at the same time.
TwoCalls == {1, 2}

FracLeq(a, b) == a[1] * b[2] <= b[1] * a[2]

\* The reorderings of n positions.
Reorderings(n) ==
    { p \in [Indices(n) -> Indices(n)] : \A i, j \in Indices(n) : i # j => p[i] # p[j] }

\* The arguments a with the predictions given in the order p (boxes, labels
\* and scores together).
PermutePred(a, p) ==
    [a EXCEPT !.pred_boxes = Take(@, p), !.pred_labels = Take(@, p), !.pred_scores = Take(@, p)]

\* The arguments a with the ground truths given in the order q (boxes and
\* labels together).
PermuteTrue(a, q) ==
    [a EXCEPT !.true_boxes = Take(@, q), !.true_labels = Take(@, q)]

\* The arguments of a second call on the inputs of a: the same arrays with
\* the same or a higher threshold, the predictions in another order, or the
\* ground truths in another order.
Variants(a) ==
    { [a EXCEPT !.iou_threshold = t] : t \in { u \in Thresholds : FracLeq(a.iou_threshold, u) } }
        \cup { PermutePred(a, p) : p \in Reorderings(Len(a.pred_boxes)) }
        \cup { PermuteTrue(a, q) : q \in Reorderings(Len(a.true_boxes)) }

\* Two calls in progress, the second on a variant of the inputs of the first,
\* each about to run its first statement.
InitTwo ==
    \E nc \in NumClassesChoices, n \in 0 .. MaxPred, m \in 0 .. MaxTrue :
        \E a1 \in ConsistentCalls(n, m, nc) :
            \E a2 \in Variants(a1) :
                /\ args = [c \in TwoCalls |-> IF c = 1 THEN a1 ELSE a2]
                /\ frame = [c \in TwoCalls |-> EntryFrame(IF c = 1 THEN a1 ELSE a2)]

\* One statement of either call.
NextTwo ==
    \E c \in TwoCalls :
        \/ CheckPredLengths(c)
        \/ CheckTrueLengths(c)
        \/ Reorder(c)
        \/ CheckMinSize(c)
        \/ ReturnBothEmpty(c)
        \/ ReturnNoPredictions(c)
        \/ ReturnNoGroundTruth(c)
        \/ ComputeAssignment(c)
        \/ ReturnMatched(c)

SpecTwo == InitTwo /\ [][NextTwo]_vars

(* ---------------- two calls that differ in the scores only ------------- *)

\* The arguments a with every other score vector of the same length (the
\* scores of a included).
ScoreVariants(a) ==
    { [a EXCEPT !.pred_scores = s] : s \in [Indices(Len(a.pred_boxes)) -> Scores] }

\* Two calls in progress, the second on the inputs of the first with other
\* scores, each about to run its first statement.
InitScores ==
    \E nc \in NumClassesChoices, n \in 0 .. MaxPred, m \in 0 .. MaxTrue :
        \E a1 \in ConsistentCalls(n, m, nc) :
            \E a2 \in ScoreVariants(a1) :
                /\ args = [c \in TwoCalls |-> IF c = 1 THEN a1 ELSE a2]
                /\ frame = [c \in TwoCalls |-> EntryFrame(IF c = 1 THEN a1 ELSE a2)]

SpecScores == InitScores /\ [][NextTwo]_vars

(* ---------------------- calls with perfect predictions ----------------- *)

\* Boxes for a call whose predictions are its ground truths: IoU 4/6, 2/8 or
\* 0 between two different ones.
PerfectBoxes == { <<0, 0, 2, 2>>, <<0, 0, 3, 2>>, <<2, 0, 4, 2>> }

\* Calls with m pairwise different ground-truth boxes and, as predictions,
\* the same boxes with the same labels in any order, with any scores.
PerfectCalls(m, nc) ==
    UNION { { [ pred_boxes    |-> Take(tb, p),
                pred_labels   |-> Take(tl, p),
                pred_scores   |-> s,
                true_boxes    |-> tb,
                true_labels   |-> tl,
                num_classes   |-> nc,
                iou_threshold |-> t,
                min_size      |-> None ]
              : p \in Reorderings(m), tl \in [Indices(m) -> Labels(nc)],
                s \in [Indices(m) -> Scores], t \in Thresholds }
            : tb \in { b \in [Indices(m) -> PerfectBoxes] :
                         \A i, j \in Indices(m) : i # j => b[i] # b[j] } }

InitPerfect ==
    \E nc \in NumClassesChoices, m \in 0 .. Min(MaxPred, MaxTrue) :
        \E a \in PerfectCalls(m, nc) : Enter(a)

\* The statements such a call can reach.
NextPerfect ==
    \E c \in CallIds :
        \/ CheckPredLengths(c)
        \/ CheckTrueLengths(c)
        \/ Reorder(c)
        \/ CheckMinSize(c)
        \/ ReturnBothEmpty(c)
        \/ ComputeAssignment(c)
        \/ ReturnMatched(c)

SpecPerfect == InitPerfect /\ [][NextPerfect]_vars

(* ------------------------ vocabulary of the claims --------------------- *)

Returned(c) == frame[c].pc = "returned"

Raised(c) == frame[c].pc = "raised"

ConsistentLengths(a) ==
    /\ Len(a.pred_boxes) = Len(a.pred_labels)
    /\ Len(a.pred_labels) = Len(a.pred_scores)
    /\ Len(a.true_boxes) = Len(a.true_labels)

\* v[lo] + ... + v[hi]
RECURSIVE SumRange(_, _, _)
SumRange(v, lo, hi) == IF hi < lo THEN 0 ELSE v[hi] + SumRange(v, lo, hi - 1)

\* m[lo][col] + ... + m[hi][col]
RECURSIVE SumColumn(_, _, _, _)
SumColumn(m, col, lo, hi) == IF hi < lo THEN 0 ELSE m[hi][col] + SumColumn(m, col, lo, hi - 1)

\* How many entries of labels are the class cls.
CountOf(labels, cls) == Cardinality({ i \in DOMAIN labels : labels[i] = cls })

\* The positions k of zip(row_ind, col_ind) whose pair has IoU above the threshold.
Accepted(c) ==
    { k \in DOMAIN frame[c].row_ind :
        AboveThreshold(IoU(frame[c].pred_boxes[frame[c].row_ind[k]],
                           args[c].true_boxes[frame[c].col_ind[k]]),
                       args[c].iou_threshold) }

AcceptedRows(c) == { frame[c].row_ind[k] : k \in Accepted(c) }

AcceptedCols(c) == { frame[c].col_ind[k] : k \in Accepted(c) }

\* Some accepted pair whose predicted and ground-truth classes differ.
AcceptedMismatch(c) ==
    \E k \in Accepted(c) :
        frame[c].pred_labels[frame[c].row_ind[k]] # args[c].true_labels[frame[c].col_ind[k]]

(* ------------------------------- claims -------------------------------- *)

\* C1: in every returned result, sum(true_positives) + sum(false_positives)
\* equals the number of predicted boxes.
C1_PredictionConservation ==
    \A c \in CallIds :
        Returned(c) =>
            LET r == frame[c].result
                nc == args[c].num_classes
            IN  SumRange(r.true_positives, 0, nc - 1) + SumRange(r.false_positives, 0, nc - 1)
                    = Len(args[c].pred_boxes)

\* A result returned after a pair of different classes was accepted.
C1_Witness ==
    \E c \in CallIds : Returned(c) /\ AcceptedMismatch(c)

\* C2: in every returned result, sum(true_positives) + sum(false_negatives)
\* equals the number of ground-truth boxes.
C2_GroundTruthConservation ==
    \A c \in CallIds :
        Returned(c) =>
            LET r == frame[c].result
                nc == args[c].num_classes
            IN  SumRange(r.true_positives, 0, nc - 1) + SumRange(r.false_negatives, 0, nc - 1)
                    = Len(args[c].true_boxes)

\* A result returned after a pair of different classes was accepted while
\* another ground truth stayed unmatched.
C2_Witness ==
    \E c \in CallIds :
        /\ Returned(c)
        /\ AcceptedMismatch(c)
        /\ \E j \in DOMAIN args[c].true_boxes : j \notin AcceptedCols(c)

\* C3: in every returned result, row cls of confusion_matrix summed over all
\* num_classes + 1 columns equals the number of ground-truth boxes labelled
\* cls, and equals true_positives[cls] + false_negatives[cls].
C3_ConfusionRows ==
    \A c \in CallIds :
        Returned(c) =>
            LET r == frame[c].result
                nc == args[c].num_classes
            IN  \A cls \in 0 .. nc - 1 :
                    /\ SumRange(r.confusion_matrix[cls], 0, nc) = CountOf(args[c].true_labels, cls)
                    /\ SumRange(r.confusion_matrix[cls], 0, nc)
                           = r.true_positives[cls] + r.false_negatives[cls]

\* A result whose row of class 0 holds a class mismatch and an unmatched ground truth.
C3_Witness ==
    \E c \in CallIds :
        /\ Returned(c)
        /\ args[c].num_classes = 2
        /\ frame[c].result.confusion_matrix[0][1] = 1
        /\ frame[c].result.confusion_matrix[0][2] = 1

\* C4: in every returned result, column cls of confusion_matrix summed over
\* all num_classes + 1 rows equals the number of predicted boxes labelled cls,
\* and equals true_positives[cls] + false_positives[cls].
C4_ConfusionColumns ==
    \A c \in CallIds :
        Returned(c) =>
            LET r == frame[c].result
                nc == args[c].num_classes
            IN  \A cls \in 0 .. nc - 1 :
                    /\ SumColumn(r.confusion_matrix, cls, 0, nc) = CountOf(args[c].pred_labels, cls)
                    /\ SumColumn(r.confusion_matrix, cls, 0, nc)
                           = r.true_positives[cls] + r.false_positives[cls]

\* A result whose column of class 0 holds a class mismatch and an unmatched prediction.
C4_Witness ==
    \E c \in CallIds :
        /\ Returned(c)
        /\ args[c].num_classes = 2
        /\ frame[c].result.confusion_matrix[1][0] = 1
        /\ frame[c].result.confusion_matrix[2][0] = 1

\* C5: the accepted matches are one-to-one (no predicted index and no
\* ground-truth index is in two of them), and every box is counted exactly
\* once in the returned confusion_matrix: a real cell [t][p] counts the accepted
\* pairs of classes t, p, the none_class row counts the predictions outside
\* every accepted pair, the none_class column the ground truths outside every
\* accepted pair.
C5_OneToOneMatching ==
    \A c \in CallIds :
        LET f == frame[c]
            nc == args[c].num_classes
        IN  /\ \A k1, k2 \in DOMAIN f.row_ind :
                   k1 # k2 => f.row_ind[k1] # f.row_ind[k2] /\ f.col_ind[k1] # f.col_ind[k2]
            /\ Returned(c) =>
                 /\ \A t, p \in 0 .. nc - 1 :
                        f.result.confusion_matrix[t][p] =
                            Cardinality({ k \in Accepted(c) :
                                            /\ args[c].true_labels[f.col_ind[k]] = t
                                            /\ f.pred_labels[f.row_ind[k]] = p })
                 /\ \A p \in 0 .. nc - 1 :
                        f.result.confusion_matrix[nc][p] =
                            Cardinality({ i \in DOMAIN f.pred_labels :
                                            i \notin AcceptedRows(c) /\ f.pred_labels[i] = p })
                 /\ \A t \in 0 .. nc - 1 :
                        f.result.confusion_matrix[t][nc] =
                            Cardinality({ j \in DOMAIN args[c].true_labels :
                                            j \notin AcceptedCols(c) /\ args[c].true_labels[j] = t })

\* A result where two predictions overlap the same single ground truth above
\* the threshold: one is matched, the other is left as unmatched.
C5_Witness ==
    \E c \in CallIds :
        /\ Returned(c)
        /\ Len(frame[c].pred_boxes) = 2
        /\ Len(args[c].true_boxes) = 1
        /\ \A i \in 1 .. 2 :
               AboveThreshold(IoU(frame[c].pred_boxes[i], args[c].true_boxes[1]),
                              args[c].iou_threshold)
        /\ Cardinality(Accepted(c)) = 1

\* C6: a call whose predicted arrays or ground-truth arrays have inconsistent
\* lengths stops with the shape-mismatch ValueError before anything else and
\* returns nothing; a call with consistent lengths, empty sets included, never
\* raises that error.
C6_ShapeValidation ==
    \A c \in CallIds :
        LET shape_errors == { "ValueError: predicted", "ValueError: ground-truth" }
        IN  IF ConsistentLengths(args[c])
            THEN frame[c].raised \notin shape_errors
            ELSE /\ frame[c].pc \in { "check_pred", "check_true", "raised" }
                 /\ Raised(c) => frame[c].raised \in shape_errors

\* A call whose predicted arrays agree and whose ground-truth arrays do not
\* has raised.
C6_Witness ==
    \E c \in CallIds :
        /\ Raised(c)
        /\ frame[c].raised = "ValueError: ground-truth"
        /\ Len(args[c].pred_boxes) = 0
        /\ Len(args[c].true_labels) > Len(args[c].true_boxes)

C8_BothEmpty ==
    \A c \in CallIds :
        ( /\ ConsistentLengths(args[c])
          /\ Len(args[c].pred_boxes) = 0
          /\ Len(args[c].true_boxes) = 0
          /\ args[c].min_size = None ) =>
            /\ ~Raised(c)
            /\ Returned(c) =>
                 LET r == frame[c].result
                     nc == args[c].num_classes
                 IN  /\ \A v \in { r.true_positives, r.false_positives, r.false_negatives } :
                            /\ DOMAIN v = 0 .. nc - 1
                            /\ \A cls \in DOMAIN v : v[cls] = 0
                     /\ DOMAIN r.confusion_matrix = 0 .. nc
                     /\ \A t \in 0 .. nc :
                            /\ DOMAIN r.confusion_matrix[t] = 0 .. nc
                            /\ \A p \in 0 .. nc : r.confusion_matrix[t][p] = 0

\* A call with both sets empty has returned.
C8_Witness ==
    \E c \in CallIds :
        /\ Returned(c)
        /\ Len(args[c].pred_boxes) = 0
        /\ Len(args[c].true_boxes) = 0

\* C9: with no predicted box and at least one ground-truth box, the result has
\* true_positives and false_positives all zero, false_negatives[cls] and
\* confusion_matrix[cls][none_class] equal to the number of ground-truth boxes
\* of class cls, and every other confusion-matrix cell zero.
C9_EmptyPredictions ==
    \A c \in CallIds :
        (Returned(c) /\ Len(args[c].pred_boxes) = 0 /\ Len(args[c].true_boxes) >= 1) =>
            LET r == frame[c].result
                nc == args[c].num_classes
            IN  /\ \A cls \in 0 .. nc - 1 :
                       /\ r.true_positives[cls] = 0
                       /\ r.false_positives[cls] = 0
                       /\ r.false_negatives[cls] = CountOf(args[c].true_labels, cls)
                       /\ r.confusion_matrix[cls][nc] = CountOf(args[c].true_labels, cls)
                /\ \A t, p \in 0 .. nc :
                       (t = nc \/ p # nc) => r.confusion_matrix[t][p] = 0

\* The scenario of the specification: no prediction, one ground-truth box of
\* label 1, num_classes = 2.
C9_Witness ==
    \E c \in CallIds :
        /\ Returned(c)
        /\ Len(args[c].pred_boxes) = 0
        /\ args[c].true_labels = << 1 >>
        /\ args[c].num_classes = 2
        /\ frame[c].result.false_negatives = [cls \in 0 .. 1 |-> IF cls = 1 THEN 1 ELSE 0]
        /\ frame[c].result.confusion_matrix[1][2] = 1

\* C10: with at least one predicted box and no ground-truth box, whatever the
\* scores, the result has true_positives and false_negatives all zero,
\* false_positives[cls] and confusion_matrix[none_class][cls] equal to the
\* number of predicted boxes of class cls, and every other cell zero.
C10_EmptyGroundTruth ==
    \A c \in CallIds :
        (Returned(c) /\ Len(args[c].pred_boxes) >= 1 /\ Len(args[c].true_boxes) = 0) =>
            LET r == frame[c].result
                nc == args[c].num_classes
            IN  /\ \A cls \in 0 .. nc - 1 :
                       /\ r.true_positives[cls] = 0
                       /\ r.false_negatives[cls] = 0
                       /\ r.false_positives[cls] = CountOf(args[c].pred_labels, cls)
                       /\ r.confusion_matrix[nc][cls] = CountOf(args[c].pred_labels, cls)
                /\ \A t, p \in 0 .. nc :
                       (t # nc \/ p = nc) => r.confusion_matrix[t][p] = 0

\* Two predictions of different classes and different scores, the class-1 one
\* given first with the higher score, and no ground truth.
C10_Witness ==
    \E c \in CallIds :
        /\ Returned(c)
        /\ Len(args[c].true_boxes) = 0
        /\ args[c].pred_labels = << 1, 0 >>
        /\ args[c].pred_scores = << 2, 1 >>
        /\ frame[c].pred_labels = << 0, 1 >>

(* --------------------- vocabulary of two-call claims ------------------- *)

\* Both calls have returned.
BothReturned(c, d) == Returned(c) /\ Returned(d)

\* The calls c and d were given the same arrays and the same num_classes.
SameArrays(c, d) ==
    [args[c] EXCEPT !.iou_threshold = args[d].iou_threshold] = args[d]

\* np.argsort and linear_sum_assignment are functions of their argument: the
\* two calls handed them equal arguments only if they got equal answers.
SameAnswers(c, d) ==
    /\ args[c].pred_scores = args[d].pred_scores => frame[c].order = frame[d].order
    /\ frame[c].iou_matrix = frame[d].iou_matrix =>
           frame[c].row_ind = frame[d].row_ind /\ frame[c].col_ind = frame[d].col_ind

\* C11: of two returned calls on the same arrays with thresholds t1 <= t2
\* (argsort and the solver answering both alike), the one with t2 reports in
\* every class at most the true positives of the one with t1, and so in total.
C11_ThresholdMonotonicity ==
    \A c, d \in TwoCalls :
        ( /\ BothReturned(c, d)
          /\ SameArrays(c, d)
          /\ FracLeq(args[c].iou_threshold, args[d].iou_threshold)
          /\ SameAnswers(c, d) ) =>
            LET tp1 == frame[c].result.true_positives
                tp2 == frame[d].result.true_positives
                nc == args[c].num_classes
            IN  /\ \A cls \in 0 .. nc - 1 : tp2[cls] <= tp1[cls]
                /\ SumRange(tp2, 0, nc - 1) <= SumRange(tp1, 0, nc - 1)

\* Two returned calls on the same arrays, the second with the higher
\* threshold, where the second lost a true positive of the first.
C11_Witness ==
    /\ BothReturned(1, 2)
    /\ SameArrays(1, 2)
    /\ SameAnswers(1, 2)
    /\ args[1].iou_threshold = << 1, 2 >>
    /\ args[2].iou_threshold = << 1, 1 >>
    /\ \E cls \in 0 .. args[1].num_classes - 1 :
           frame[2].result.true_positives[cls] < frame[1].result.true_positives[cls]

\* The call d was given the inputs of the call c with the predictions, or
\* with the ground truths, in another order (the identity included).
Permuted(c, d) ==
    \/ \E p \in Reorderings(Len(args[c].pred_boxes)) : args[d] = PermutePred(args[c], p)
    \/ \E q \in Reorderings(Len(args[c].true_boxes)) : args[d] = PermuteTrue(args[c], q)

\* At most one pairing attains the maximal total IoU on the iou_matrix of the
\* call c (none is looked for when a set is empty).
UniqueOptimum(c) ==
    frame[c].iou_matrix # << >> =>
        Cardinality(LinearSumAssignment(frame[c].iou_matrix, Len(frame[c].pred_boxes),
                                        Len(args[c].true_boxes))) = 1

\* C12 as stated: two returned calls, the second on the inputs of the first
\* with the predictions or the ground truths in another order (argsort and
\* the solver answering both alike), return identical results, whatever the
\* ties in total IoU or in the scores.
C12_PermutationInvariance ==
    \A c, d \in TwoCalls :
        (BothReturned(c, d) /\ Permuted(c, d) /\ SameAnswers(c, d)) =>
            frame[c].result = frame[d].result

\* C12 as amended: the same, for inputs on which exactly one pairing attains
\* the maximal total IoU (equal scores included).
C12_PermutationInvarianceUniqueOptimum ==
    \A c, d \in TwoCalls :
        (BothReturned(c, d) /\ Permuted(c, d) /\ UniqueOptimum(c)) =>
            frame[c].result = frame[d].result

\* Two returned calls on two predictions of equal scores and different boxes
\* and two ground truths, the second call with the predictions swapped, a
\* single optimal pairing, and a true positive reported.
C12_Witness ==
    /\ BothReturned(1, 2)
    /\ Len(args[1].pred_boxes) = 2
    /\ Len(args[1].true_boxes) = 2
    /\ args[1].pred_boxes[1] # args[1].pred_boxes[2]
    /\ args[1].pred_scores[1] = args[1].pred_scores[2]
    /\ args[2] = PermutePred(args[1], << 2, 1 >>)
    /\ UniqueOptimum(1)
    /\ \E cls \in 0 .. args[1].num_classes - 1 : frame[1].result.true_positives[cls] > 0

\* C13: in a returned result of the general case, the boxes of an assigned
\* pair are consumed exactly when its IoU is strictly greater than
\* iou_threshold (a pair at the threshold is rejected); every box not consumed
\* is counted in the none_class row (predictions) or the none_class column
\* (ground truths) of its class; and with iou_threshold = 1.0 no true positive
\* is reported.
C13_StrictThreshold ==
    \A c \in CallIds :
        Returned(c) =>
            LET f == frame[c]
                a == args[c]
                nc == a.num_classes
                r == f.result
            IN  /\ \A k \in DOMAIN f.row_ind :
                       LET ri == f.row_ind[k]
                           ci == f.col_ind[k]
                           iou == IoU(f.pred_boxes[ri], a.true_boxes[ci])
                           greater == iou[1] * a.iou_threshold[2] > a.iou_threshold[1] * iou[2]
                       IN  /\ greater <=> ~f.remainig_preds[ri]
                           /\ greater <=> ~f.remainig_trues[ci]
                /\ f.row_ind # << >> =>
                       /\ \A p \in 0 .. nc - 1 :
                              r.confusion_matrix[nc][p] =
                                  Cardinality({ i \in DOMAIN f.pred_labels :
                                                  f.remainig_preds[i] /\ f.pred_labels[i] = p })
                       /\ \A t \in 0 .. nc - 1 :
                              r.confusion_matrix[t][nc] =
                                  Cardinality({ j \in DOMAIN a.true_labels :
                                                  f.remainig_trues[j] /\ a.true_labels[j] = t })
                /\ a.iou_threshold = << 1, 1 >> =>
                       \A cls \in 0 .. nc - 1 : r.true_positives[cls] = 0

\* A result with iou_threshold = 1.0 where a prediction was paired with a
\* ground truth of the same box and the same class (IoU exactly 1.0): both
\* are left unmatched.
C13_Witness ==
    \E c \in CallIds :
        /\ Returned(c)
        /\ args[c].iou_threshold = << 1, 1 >>
        /\ \E k \in DOMAIN frame[c].row_ind :
               LET ri == frame[c].row_ind[k]
                   ci == frame[c].col_ind[k]
               IN  /\ frame[c].pred_boxes[ri] = args[c].true_boxes[ci]
                   /\ frame[c].pred_labels[ri] = args[c].true_labels[ci]
                   /\ frame[c].remainig_preds[ri]
                   /\ frame[c].remainig_trues[ci]
                   /\ frame[c].result.confusion_matrix[args[c].num_classes][frame[c].pred_labels[ri]] >= 1
                   /\ frame[c].result.confusion_matrix[args[c].true_labels[ci]][args[c].num_classes] >= 1

\* The accepted pairs with ground-truth class t and predicted class p.
AcceptedOfClasses(c, t, p) ==
    { k \in Accepted(c) :
        /\ args[c].true_labels[frame[c].col_ind[k]] = t
        /\ frame[c].pred_labels[frame[c].row_ind[k]] = p }

\* C14: in every returned result an accepted pair of classes t # p counts
\* once in false_positives[p], once in false_negatives[t] and once in
\* confusion_matrix[t][p], never in true_positives, and its boxes are not
\* counted in the none_class row or column: true_positives[cls] counts the
\* accepted pairs of classes cls, cls; false_positives[cls] the accepted pairs
\* with another ground-truth class plus the unpaired predictions;
\* false_negatives[cls] likewise.  The scenario of the docstring (same box,
\* predicted label 0, true label 1) gives false_positives=[1,0],
\* false_negatives=[0,1], confusion_matrix[1][0]=1 and all else 0.
C14_ClassMismatch ==
    \A c \in CallIds :
        Returned(c) =>
            LET f == frame[c]
                a == args[c]
                nc == a.num_classes
                r == f.result
                rows == AcceptedRows(c)
                cols == AcceptedCols(c)
                free_preds(p) == Cardinality({ i \in DOMAIN f.pred_labels :
                                                 i \notin rows /\ f.pred_labels[i] = p })
                free_trues(t) == Cardinality({ j \in DOMAIN a.true_labels :
                                                 j \notin cols /\ a.true_labels[j] = t })
                pairs(t, p) == Cardinality(AcceptedOfClasses(c, t, p))
                others(cls) == (0 .. nc - 1) \ {cls}
            IN  /\ \A cls \in 0 .. nc - 1 :
                       /\ r.true_positives[cls] = pairs(cls, cls)
                       /\ r.false_positives[cls] =
                              Cardinality(UNION { AcceptedOfClasses(c, t, cls) : t \in others(cls) })
                                  + free_preds(cls)
                       /\ r.false_negatives[cls] =
                              Cardinality(UNION { AcceptedOfClasses(c, cls, p) : p \in others(cls) })
                                  + free_trues(cls)
                       /\ r.confusion_matrix[nc][cls] = free_preds(cls)
                       /\ r.confusion_matrix[cls][nc] = free_trues(cls)
                /\ \A t, p \in 0 .. nc - 1 : t # p => r.confusion_matrix[t][p] = pairs(t, p)
                /\ ( /\ a.pred_boxes = a.true_boxes
                     /\ Len(a.pred_boxes) = 1
                     /\ a.pred_labels = << 0 >>
                     /\ a.true_labels = << 1 >>
                     /\ a.iou_threshold # << 1, 1 >> ) =>
                       /\ r.true_positives = [cls \in 0 .. 1 |-> 0]
                       /\ r.false_positives = [cls \in 0 .. 1 |-> IF cls = 0 THEN 1 ELSE 0]
                       /\ r.false_negatives = [cls \in 0 .. 1 |-> IF cls = 1 THEN 1 ELSE 0]
                       /\ r.confusion_matrix =
                              [t \in 0 .. 2 |-> [p \in 0 .. 2 |-> IF t = 1 /\ p = 0 THEN 1 ELSE 0]]

\* The scenario of the docstring has returned: one predicted box of label 0
\* on the box of the one ground truth of label 1, threshold 0.5.
C14_Witness ==
    \E c \in CallIds :
        /\ Returned(c)
        /\ args[c].pred_boxes = << << 0, 0, 2, 2 >> >>
        /\ args[c].true_boxes = << << 0, 0, 2, 2 >> >>
        /\ args[c].pred_labels = << 0 >>
        /\ args[c].true_labels = << 1 >>
        /\ args[c].iou_threshold = << 1, 2 >>
        /\ AcceptedMismatch(c)
        /\ frame[c].result.confusion_matrix[1][0] = 1

\* The predictions of a are its ground truths in some order, labels
\* included, and the ground-truth boxes are pairwise different.
PerfectPredictions(a) ==
    /\ \E p \in Reorderings(Len(a.true_boxes)) :
           a.pred_boxes = Take(a.true_boxes, p) /\ a.pred_labels = Take(a.true_labels, p)
    /\ \A i, j \in DOMAIN a.true_boxes : i # j => a.true_boxes[i] # a.true_boxes[j]

\* C15: a returned call with perfect predictions and iou_threshold < 1 has
\* true_positives[cls] and confusion_matrix[cls][cls] equal to the number of
\* ground truths of class cls, false_positives and false_negatives all zero
\* and every other confusion-matrix cell zero.
C15_PerfectPredictions ==
    \A c \in CallIds :
        ( /\ Returned(c)
          /\ PerfectPredictions(args[c])
          /\ args[c].iou_threshold[1] < args[c].iou_threshold[2] ) =>
            LET r == frame[c].result
                nc == args[c].num_classes
            IN  /\ \A cls \in 0 .. nc - 1 :
                       /\ r.true_positives[cls] = CountOf(args[c].true_labels, cls)
                       /\ r.false_positives[cls] = 0
                       /\ r.false_negatives[cls] = 0
                /\ \A t, p \in 0 .. nc :
                       r.confusion_matrix[t][p] =
                           IF t = p /\ t < nc THEN CountOf(args[c].true_labels, t) ELSE 0

\* Two ground truths of different classes whose boxes overlap above the
\* threshold, predicted in the reverse order: both are true positives.
C15_Witness ==
    \E c \in CallIds :
        /\ Returned(c)
        /\ args[c].true_boxes = << << 0, 0, 2, 2 >>, << 0, 0, 3, 2 >> >>
        /\ args[c].pred_boxes = << << 0, 0, 3, 2 >>, << 0, 0, 2, 2 >> >>
        /\ args[c].true_labels = << 0, 1 >>
        /\ args[c].pred_labels = << 1, 0 >>
        /\ args[c].iou_threshold = << 1, 2 >>
        /\ frame[c].result.true_positives = [cls \in 0 .. 1 |-> 1]

\* C16: no statement of a call, returning or raising, changes the caller's
\* pred_boxes, pred_labels, pred_scores, true_boxes or true_labels (or any
\* other argument); the reordered arrays are local copies.
C16_Purity == [][args' = args]_vars

\* A call has returned after reordering its local copies: they differ from
\* the caller's arrays, which it was given in descending score order.
C16_Witness ==
    \E c \in CallIds :
        /\ Returned(c)
        /\ args[c].pred_scores = << 2, 1 >>
        /\ frame[c].order = << 2, 1 >>
        /\ frame[c].pred_boxes # args[c].pred_boxes
        /\ frame[c].pred_labels # args[c].pred_labels

\* The frame of a call with arguments a after lines 69-80, for the order
\* argsort returned.
AloneReordered(a, order) ==
    [EntryFrame(a) EXCEPT
        !.order            = order,
        !.pred_boxes       = Take(a.pred_boxes, order),
        !.pred_labels      = Take(a.pred_labels, order),
        !.true_positives   = ZeroVector(a.num_classes),
        !.false_positives  = ZeroVector(a.num_classes),
        !.false_negatives  = ZeroVector(a.num_classes),
        !.confusion_matrix = ZeroMatrix(a.num_classes)]

\* What a call with arguments a returns from the frame f of line 80 when it
\* runs alone, statement after statement, and the solver answers row_ind,
\* col_ind (consistent lengths, min_size=None).
AloneFrom(f, a, n, m, row_ind, col_ind) ==
    IF n = 0 /\ m = 0
    THEN BBoxesMatchResult(f)
    ELSE IF n = 0
    THEN BBoxesMatchResult(
             [f EXCEPT !.false_negatives  = IncAll(@, a.true_labels),
                       !.confusion_matrix = IncNoneColumn(@, a.true_labels, a.num_classes)])
    ELSE IF m = 0
    THEN BBoxesMatchResult(
             [f EXCEPT !.false_positives  = IncAll(@, f.pred_labels),
                       !.confusion_matrix = IncNoneRow(@, f.pred_labels, a.num_classes)])
    ELSE BBoxesMatchResult(CountRemaining(MatchPairsFrom(
             [f EXCEPT !.iou_matrix     = IouMatrix(f.pred_boxes, a.true_boxes),
                       !.row_ind        = row_ind,
                       !.col_ind        = col_ind,
                       !.remainig_preds = [i \in 1 .. n |-> TRUE],
                       !.remainig_trues = [j \in 1 .. m |-> TRUE]], a, 1), a))

\* The result of the call c is one its arguments give when run alone: its
\* order is one argsort can return, its pairing one the solver can return,
\* and the result is what the statements compute from them.
ReturnsAsAlone(c) ==
    /\ frame[c].order \in ArgSort(args[c].pred_scores)
    /\ frame[c].row_ind # << >> =>
           << frame[c].row_ind, frame[c].col_ind >> \in
               LinearSumAssignment(IouMatrix(Take(args[c].pred_boxes, frame[c].order),
                                             args[c].true_boxes),
                                   Len(args[c].pred_boxes), Len(args[c].true_boxes))
    /\ frame[c].result =
           AloneFrom(AloneReordered(args[c], frame[c].order), args[c],
                     Len(args[c].pred_boxes), Len(args[c].true_boxes),
                     frame[c].row_ind, frame[c].col_ind)

\* C17: when two calls whose statements interleaved in any way have both
\* returned, each has returned a result it can return when run alone on its
\* arguments, and two calls on the same arguments (argsort and the solver
\* answering both alike) have returned the same result.
C17_Reentrancy ==
    BothReturned(1, 2) =>
        /\ \A c \in TwoCalls : ReturnsAsAlone(c)
        /\ (args[1] = args[2] /\ SameAnswers(1, 2)) => frame[1].result = frame[2].result

\* Two calls on different arguments have both returned, each with accepted
\* pairs, with different results.
C17_Witness ==
    /\ BothReturned(1, 2)
    /\ args[1] # args[2]
    /\ Accepted(1) # {}
    /\ Accepted(2) # {}
    /\ frame[1].result # frame[2].result

\* C18: in every returned result and for every class cls,
\* true_positives[cls] = confusion_matrix[cls][cls], false_positives[cls] is
\* the sum of column cls over the rows other than cls (the none_class row
\* included) and false_negatives[cls] the sum of row cls over the columns
\* other than cls (the none_class column included).
C18_CountersFromMatrix ==
    \A c \in CallIds :
        Returned(c) =>
            LET r == frame[c].result
                nc == args[c].num_classes
            IN  \A cls \in 0 .. nc - 1 :
                    /\ r.true_positives[cls] = r.confusion_matrix[cls][cls]
                    /\ r.false_positives[cls] =
                           SumColumn(r.confusion_matrix, cls, 0, nc) - r.confusion_matrix[cls][cls]
                    /\ r.false_negatives[cls] =
                           SumRange(r.confusion_matrix[cls], 0, nc) - r.confusion_matrix[cls][cls]

\* A result with a true positive of class 0, an accepted pair of a class-0
\* ground truth with a class-1 prediction, and nothing else.
C18_Witness ==
    \E c \in CallIds :
        /\ Returned(c)
        /\ args[c].num_classes = 2
        /\ frame[c].result.true_positives[0] = 1
        /\ frame[c].result.confusion_matrix[0][1] = 1
        /\ frame[c].result.false_positives[1] = 1
        /\ frame[c].result.false_negatives[0] = 1

\* The one-to-one pairings of n predictions with m ground truths, of any
\* size, as sets of <<prediction, ground truth>>.
OneToOne(n, m) ==
    { s \in SUBSET ((1 .. n) \X (1 .. m)) :
        \A x, y \in s : x # y => x[1] # y[1] /\ x[2] # y[2] }

\* The total IoU of the pairs of s, between the boxes pb and tb.
RECURSIVE TotalOfPairs(_, _, _)
TotalOfPairs(s, pb, tb) ==
    IF s = {} THEN << 0, 1 >>
    ELSE LET x == CHOOSE y \in s : TRUE
         IN  FracAdd(IoU(pb[x[1]], tb[x[2]]), TotalOfPairs(s \ {x}, pb, tb))

\* C19: once a call with N >= 1 predictions and M >= 1 ground truths has its
\* assignment, zip(row_ind, col_ind) is a one-to-one pairing of exactly
\* min(N, M) pairs of a predicted with a ground-truth index, its total IoU is
\* at least that of every one-to-one pairing of the boxes, and a box outside
\* the pairing is never consumed.
C19_OptimalAssignment ==
    \A c \in CallIds :
        (frame[c].pc \in { "loop", "returned" } /\ Len(args[c].pred_boxes) >= 1
            /\ Len(args[c].true_boxes) >= 1) =>
            LET f == frame[c]
                n == Len(args[c].pred_boxes)
                m == Len(args[c].true_boxes)
                pairs == { << f.row_ind[k], f.col_ind[k] >> : k \in DOMAIN f.row_ind }
                total == TotalOfPairs(pairs, f.pred_boxes, args[c].true_boxes)
            IN  /\ Len(f.row_ind) = Min(n, m)
                /\ Len(f.col_ind) = Min(n, m)
                /\ pairs \in OneToOne(n, m)
                /\ Cardinality(pairs) = Min(n, m)
                /\ \A s \in OneToOne(n, m) :
                       FracGeq(total, TotalOfPairs(s, f.pred_boxes, args[c].true_boxes))
                /\ \A i \in 1 .. n : (\A x \in pairs : x[1] # i) => f.remainig_preds[i]
                /\ \A j \in 1 .. m : (\A x \in pairs : x[2] # j) => f.remainig_trues[j]

\* A returned call where the first prediction overlaps the first ground truth
\* best (IoU 4/6) and is paired with the second (IoU 2/8), the second
\* prediction being the first ground truth's box.
C19_Witness ==
    \E c \in CallIds :
        /\ Returned(c)
        /\ frame[c].pred_boxes = << << 0, 0, 3, 2 >>, << 0, 0, 2, 2 >> >>
        /\ args[c].true_boxes = << << 0, 0, 2, 2 >>, << 2, 0, 4, 2 >> >>
        /\ frame[c].row_ind = << 1, 2 >>
        /\ frame[c].col_ind = << 2, 1 >>

\* No predicted box of a has with a ground-truth box of a an IoU greater than
\* the threshold of a.
NoOverlapAboveThreshold(a) ==
    \A i \in DOMAIN a.pred_boxes, j \in DOMAIN a.true_boxes :
        LET iou == IoU(a.pred_boxes[i], a.true_boxes[j])
        IN  iou[1] * a.iou_threshold[2] <= a.iou_threshold[1] * iou[2]

\* C20: a returned call in which no predicted/ground-truth pair has IoU above
\* the threshold reports no true positive, every prediction of class cls in
\* false_positives[cls] and in the none_class row, every ground truth of
\* class cls in false_negatives[cls] and in the none_class column, and zero in
\* every other confusion-matrix cell, although the solver paired min(N, M)
\* boxes.
C20_NoOverlap ==
    \A c \in CallIds :
        (Returned(c) /\ NoOverlapAboveThreshold(args[c])) =>
            LET r == frame[c].result
                a == args[c]
                nc == a.num_classes
            IN  /\ \A cls \in 0 .. nc - 1 :
                       /\ r.true_positives[cls] = 0
                       /\ r.false_positives[cls] = CountOf(a.pred_labels, cls)
                       /\ r.false_negatives[cls] = CountOf(a.true_labels, cls)
                       /\ r.confusion_matrix[nc][cls] = CountOf(a.pred_labels, cls)
                       /\ r.confusion_matrix[cls][nc] = CountOf(a.true_labels, cls)
                /\ \A t, p \in 0 .. nc - 1 : r.confusion_matrix[t][p] = 0
                /\ r.confusion_matrix[nc][nc] = 0
                /\ Len(frame[c].row_ind) =
                       Min(Len(a.pred_boxes), Len(a.true_boxes))

\* The scenario of the specification: one predicted box and one ground-truth
\* box that do not overlap, threshold 0.5; the solver paired them and the call
\* returned one false positive and one false negative.
C20_Witness ==
    \E c \in CallIds :
        /\ Returned(c)
        /\ args[c].pred_boxes = << << 0, 0, 2, 2 >> >>
        /\ args[c].true_boxes = << << 2, 0, 4, 2 >> >>
        /\ args[c].iou_threshold = << 1, 2 >>
        /\ frame[c].row_ind = << 1 >>
        /\ frame[c].col_ind = << 1 >>
        /\ frame[c].result.confusion_matrix[args[c].num_classes][args[c].pred_labels[1]] = 1
        /\ frame[c].result.confusion_matrix[args[c].true_labels[1]][args[c].num_classes] = 1

(* ------------------- claims about the reordering step ------------------ *)

\* The call c has run lines 70-80.
Reordered(c) == frame[c].confusion_matrix # << >>

\* How many positions of boxes, labels hold the box b with the label l.
CountOfPair(boxes, labels, b, l) ==
    Cardinality({ i \in DOMAIN boxes : boxes[i] = b /\ labels[i] = l })

C22_MostConfidentFirst ==
    \A c \in CallIds :
        Reordered(c) =>
            LET a == args[c]
                order == frame[c].order
                n == Len(a.pred_scores)
            IN  /\ \A i, j \in 1 .. n : i < j => a.pred_scores[order[i]] >= a.pred_scores[order[j]]
                /\ n >= 1 => \A i \in 1 .. n : a.pred_scores[order[1]] >= a.pred_scores[i]

\* The calls c and d were given the same arguments but for pred_scores.
SameButScores(c, d) ==
    [args[c] EXCEPT !.pred_scores = args[d].pred_scores] = args[d]

\* C23: two returned calls whose arguments differ in pred_scores only return
\* identical results when a single pairing attains the maximal total IoU;
\* and in any case when argsort gave both the same order and the solver the
\* same pairing (the scores are read for the order and for nothing else).
C23_ScoreIndependence ==
    BothReturned(1, 2) =>
        \A c, d \in TwoCalls :
            SameButScores(c, d) =>
                /\ UniqueOptimum(c) => frame[c].result = frame[d].result
                /\ ( /\ frame[c].order = frame[d].order
                     /\ frame[c].row_ind = frame[d].row_ind
                     /\ frame[c].col_ind = frame[d].col_ind ) =>
                       frame[c].result = frame[d].result

\* Two returned calls on two predictions of different boxes and labels, given
\* scores that order them one way in the first call and the other way in the
\* second, with a single optimal pairing and a true positive reported.
C23_Witness ==
    /\ BothReturned(1, 2)
    /\ SameButScores(1, 2)
    /\ args[1].pred_scores = << 1, 2 >>
    /\ args[2].pred_scores = << 2, 1 >>
    /\ args[1].pred_boxes[1] # args[1].pred_boxes[2]
    /\ args[1].pred_labels[1] # args[1].pred_labels[2]
    /\ frame[1].order # frame[2].order
    /\ UniqueOptimum(1)
    /\ \E cls \in 0 .. args[1].num_classes - 1 : frame[1].result.true_positives[cls] > 0

(* ----------------------- claims about the errors ----------------------- *)

\* The predicted arrays of a disagree in length.
InconsistentPred(a) ==
    Len(a.pred_labels) # Len(a.pred_boxes) \/ Len(a.pred_labels) # Len(a.pred_scores)

\* The ground-truth arrays of a disagree in length.
InconsistentTrue(a) == Len(a.true_boxes) # Len(a.true_labels)

\* C24: a call with inconsistent lengths and min_size given never raises
\* NotImplementedError: once it has raised, the error is a shape-mismatch
\* ValueError; and the error of a call whose predicted arrays are
\* inconsistent is the one about the predicted arrays, also when the
\* ground-truth arrays are inconsistent too (theirs is reported only when the
\* predicted arrays agree).
C24_ErrorPrecedence ==
    \A c \in CallIds :
        LET a == args[c]
        IN  /\ ((InconsistentPred(a) \/ InconsistentTrue(a)) /\ a.min_size # None) =>
                   /\ frame[c].raised # "NotImplementedError"
                   /\ Raised(c) => frame[c].raised \in { "ValueError: predicted",
                                                         "ValueError: ground-truth" }
            /\ (Raised(c) /\ InconsistentPred(a)) => frame[c].raised = "ValueError: predicted"
            /\ (Raised(c) /\ ~InconsistentPred(a) /\ InconsistentTrue(a)) =>
                   frame[c].raised = "ValueError: ground-truth"

\* A call with inconsistent predicted arrays, inconsistent ground-truth
\* arrays and min_size=0 has raised the error about the predicted arrays.
C24_Witness ==
    \E c \in CallIds :
        /\ Raised(c)
        /\ InconsistentPred(args[c])
        /\ InconsistentTrue(args[c])
        /\ args[c].min_size = << 0 >>
        /\ frame[c].raised = "ValueError: predicted"

(* -------------------- claims about the matrix cells -------------------- *)

\* C25: in every returned result confusion_matrix[none_class][none_class] is
\* 0, and every entry of true_positives, false_positives, false_negatives and
\* confusion_matrix is a non-negative integer.
C25_NoneNoneCell ==
    \A c \in CallIds :
        Returned(c) =>
            LET r == frame[c].result
                nc == args[c].num_classes
            IN  /\ r.confusion_matrix[nc][nc] = 0
                /\ \A cls \in 0 .. nc - 1 :
                       /\ r.true_positives[cls] \in Nat
                       /\ r.false_positives[cls] \in Nat
                       /\ r.false_negatives[cls] \in Nat
                /\ \A t, p \in 0 .. nc : r.confusion_matrix[t][p] \in Nat

\* A result of the general case with an unmatched prediction in the
\* none_class row and an unmatched ground truth in the none_class column.
C25_Witness ==
    \E c \in CallIds :
        /\ Returned(c)
        /\ frame[c].row_ind # << >>
        /\ \E p \in 0 .. args[c].num_classes - 1 :
               frame[c].result.confusion_matrix[args[c].num_classes][p] >= 1
        /\ \E t \in 0 .. args[c].num_classes - 1 :
               frame[c].result.confusion_matrix[t][args[c].num_classes] >= 1
        /\ frame[c].result.confusion_matrix[args[c].num_classes][args[c].num_classes] = 0

\* The sum of the cells of the rows lo .. hi of m, columns 0 .. last.
RECURSIVE SumMatrix(_, _, _, _)
SumMatrix(m, lo, hi, last) ==
    IF hi < lo THEN 0 ELSE SumRange(m[hi], 0, last) + SumMatrix(m, lo, hi - 1, last)

\* C26: in every returned result the entries of confusion_matrix sum to the
\* number of predicted boxes plus the number of ground-truth boxes minus the
\* number of accepted matches (assigned pairs with IoU > iou_threshold).
C26_ConfusionTotal ==
    \A c \in CallIds :
        Returned(c) =>
            LET nc == args[c].num_classes
            IN  SumMatrix(frame[c].result.confusion_matrix, 0, nc, nc)
                    = Len(args[c].pred_boxes) + Len(args[c].true_boxes)
                          - Cardinality(Accepted(c))

\* A result for two predictions and two ground truths where one assigned
\* pair was accepted and the other rejected: the cells sum to three.
C26_Witness ==
    \E c \in CallIds :
        /\ Returned(c)
        /\ Len(args[c].pred_boxes) = 2
        /\ Len(args[c].true_boxes) = 2
        /\ Cardinality(Accepted(c)) = 1
        /\ SumMatrix(frame[c].result.confusion_matrix, 0, args[c].num_classes,
                     args[c].num_classes) = 3

====
